---- MODULE Spec2Model ----
(***************************************************************************)
(* Model of the cubic-spline showcase (src/src/main.rs): a store of        *)
(* movable control points edited with the mouse and the C key, and the     *)
(* gizmo draw calls emitted from it, one chain of six systems per frame.   *)
(*                                                                         *)
(* Positions are integer pairs.  The hit test of move_point_with_mouse     *)
(* compares a Euclidean distance with selected_size; on integer            *)
(* coordinates distance < r is the same as squared distance < r * r, and   *)
(* that is how it is computed here.                                        *)
(***************************************************************************)
EXTENDS Integers, Sequences, FiniteSets

VARIABLES
    points,               \* ControlPoints.points : Vec<MovablePoint>
    mouse_position,       \* MousePosition.0 : Option<Vec2>  (<<>> is None, <<p>> is Some(p))
    cursor_events,        \* CursorMoved events not yet read by handle_mouse_move
    keyboard,             \* ButtonInput<KeyCode>.just_pressed(KeyC) in this frame
    left_pressed,         \* ButtonInput<MouseButton>.pressed(Left) in this frame
    left_just_pressed,    \* ButtonInput<MouseButton>.just_pressed(Left) in this frame
    right_just_pressed,   \* ButtonInput<MouseButton>.just_pressed(Right) in this frame
    camera,               \* outcome of camera.get_single / viewport_to_world_2d in this frame
    circles,              \* circle_2d calls made on Gizmos<MyRoundGizmos> in this frame
    lines,                \* linestrip calls made on the default Gizmos in this frame
    pc,                   \* the system of the Update chain that runs next
    frame_start_selected  \* history: index of the point selected when the frame began, 0 if none

vars == <<points, mouse_position, cursor_events, keyboard, left_pressed,
          left_just_pressed, right_just_pressed, camera, circles, lines, pc, frame_start_selected>>

----------------------------------------------------------------------------
(* Bounds of the model *)

\* the store is capped at this many points in the interactive specification
MaxPoints == 4

\* the rendering specification starts from stores of up to this many points
MaxRenderPoints == 5

----------------------------------------------------------------------------
(* Program constants *)

show_size == 5

selected_size == 10

default_color == "GREEN"

selected_color == "RED"

\* render_curve: resolution = 100 * curve.segments().len()
ResolutionPerSegment == 100

\* plot_line: the Bezier branch needs points[0..3]
BezierPoints == 4

\* plot_line: fewer points than this and nothing is drawn
MinLinePoints == 2

----------------------------------------------------------------------------
(* Option<Vec2> *)

None == <<>>

Some(v) == <<v>>

Unwrap(o) == o[1]

----------------------------------------------------------------------------
(* The camera collaborator.  A default Camera2d maps the viewport to the   *)
(* world by moving the origin to the viewport centre and flipping y.       *)

ViewportCenter == <<3, 8>>

ViewportToWorld2d(p) == <<p[1] - ViewportCenter[1], ViewportCenter[2] - p[2]>>

\* cursor positions the window reports
ScreenPos == {<<3, 8>>, <<9, 8>>, <<9, 0>>}

WorldPos == {ViewportToWorld2d(p) : p \in ScreenPos}

\* the CursorMoved events of one frame: none, one, or two in arrival order
CursorBatches ==
    {<<>>} \cup {<<p>> : p \in ScreenPos}
           \cup {<<p, q>> : p \in ScreenPos, q \in ScreenPos}

\* "absent": camera.get_single() is Err; "unprojectable": viewport_to_world_2d is Err
CameraStates == {"absent", "unprojectable", "ok"}

GetSingleOk(cam) == cam # "absent"

\* mutant: the Err of viewport_to_world_2d is not handled
ProjectionOk_Unchecked(cam) == TRUE

ProjectionOk(cam) == cam = "ok"

----------------------------------------------------------------------------
(* MovablePoint and the store *)

DefaultPoint ==
    [position |-> <<0, 0>>, show_size |-> show_size, selected_size |-> selected_size,
     default_color |-> default_color, selected_color |-> selected_color,
     is_selected |-> FALSE]

NewPoint(world_position) == [DefaultPoint EXCEPT !.position = world_position]

Min(S) == CHOOSE x \in S : \A y \in S : x <= y

SelectedIndices(ps) == {i \in DOMAIN ps : ps[i].is_selected}

DistSq(a, b) == (a[1] - b[1]) * (a[1] - b[1]) + (a[2] - b[2]) * (a[2] - b[2])

\* point.position.distance(mouse_point) < point.selected_size
WithinRadius(p, m) == DistSq(p.position, m) < p.selected_size * p.selected_size

\* mutant: the closure forgets to reset the flags
ClearSelected_Forgets(ps) == ps

\* the clear_selected closure
ClearSelected(ps) == [i \in 1..Len(ps) |-> [ps[i] EXCEPT !.is_selected = FALSE]]

\* mutant: the drag moves every point, not only the selected one
DragFirstSelected_MovesAll(ps, m) ==
    [i \in 1..Len(ps) |-> [ps[i] EXCEPT !.position = m]]

\* mutant: the first loop does not return, so the selection search runs after the drag
DragFirstSelected_ThenSearches(ps, m) ==
    LET moved == [ps EXCEPT ![Min(SelectedIndices(ps))].position = m]
        hit == {i \in DOMAIN moved : WithinRadius(moved[i], m)}
    IN  [moved EXCEPT ![Min(hit)].is_selected = TRUE]

\* first loop of move_point_with_mouse: the first selected point follows the mouse
DragFirstSelected(ps, m) ==
    [ps EXCEPT ![Min(SelectedIndices(ps))].position = m]

\* mutant: the second loop has no break, so every point within its radius is selected
SelectFirstWithin_NoBreak(ps, m) ==
    [i \in 1..Len(ps) |->
        [ps[i] EXCEPT !.is_selected = ps[i].is_selected \/ WithinRadius(ps[i], m)]]

\* mutant: the hit test is <= instead of <
SelectFirstWithin_Inclusive(ps, m) ==
    LET hit == {i \in DOMAIN ps :
                   DistSq(ps[i].position, m) <= ps[i].selected_size * ps[i].selected_size}
    IN  IF hit = {} THEN ps ELSE [ps EXCEPT ![Min(hit)].is_selected = TRUE]

\* mutant: the point that gets selected jumps to the pointer at once
SelectFirstWithin_Snaps(ps, m) ==
    LET hit == {i \in DOMAIN ps : WithinRadius(ps[i], m)}
    IN  IF hit = {} THEN ps
        ELSE [ps EXCEPT ![Min(hit)].is_selected = TRUE, ![Min(hit)].position = m]

\* second loop of move_point_with_mouse: the first point within its radius is selected
SelectFirstWithin(ps, m) ==
    LET hit == {i \in DOMAIN ps : WithinRadius(ps[i], m)}
    IN  IF hit = {} THEN ps ELSE [ps EXCEPT ![Min(hit)].is_selected = TRUE]

\* mutant: the new point is inserted at the head
Push_Front(ps, world_position) == <<NewPoint(world_position)>> \o ps

\* control_points.points.push(MovablePoint { position, ..default() })
Push(ps, world_position) == Append(ps, NewPoint(world_position))

\* mutant: the oldest point is removed
Pop_Front(ps) == IF ps = <<>> THEN ps ELSE Tail(ps)

\* control_points.points.pop()
Pop(ps) == IF ps = <<>> THEN ps ELSE SubSeq(ps, 1, Len(ps) - 1)

----------------------------------------------------------------------------
(* Curves.  to_curve() of the three bevy generators returns the cubic      *)
(* segments, one per window of four control points, or an error when       *)
(* there is no such window.  A curve is kept as its list of windows.       *)

Positions(ps) == [i \in 1..Len(ps) |-> ps[i].position]

Windows4(cp) ==
    IF Len(cp) < 4 THEN <<>>
    ELSE [i \in 1..(Len(cp) - 3) |-> <<cp[i], cp[i + 1], cp[i + 2], cp[i + 3]>>]

Minus(a, b) == <<a[1] - b[1], a[2] - b[2]>>

Twice(a) == <<2 * a[1], 2 * a[2]>>

Curve(segments) == [ok |-> segments # <<>>, segments |-> segments]

\* CubicBSpline::new(points).to_curve()
BSplineToCurve(cp) == Curve(Windows4(cp))

\* mutant: the end points are not mirrored, as for the B-spline
CardinalToCurve_NoMirror(cp) == Curve(Windows4(cp))

\* CubicCardinalSpline::new_catmull_rom(points).to_curve(): the end points are
\* mirrored, so n >= 2 control points give n - 1 segments
CardinalToCurve(cp) ==
    IF Len(cp) < 2 THEN Curve(<<>>)
    ELSE LET n == Len(cp)
             mirrored_first == Minus(Twice(cp[1]), cp[2])
             mirrored_last == Minus(Twice(cp[n]), cp[n - 1])
         IN  Curve(Windows4(<<mirrored_first>> \o cp \o <<mirrored_last>>))

\* CubicBezier::new(points_array).to_curve(): one segment per array
BezierToCurve(points_array) == Curve(points_array)

\* gizmos.linestrip_2d(points, color)
Linestrip2d(cp, color) ==
    [call |-> "linestrip_2d", color |-> color, segments |-> <<>>,
     control |-> cp, resolution |-> 0, vertices |-> Len(cp)]

\* mutant: the resolution does not follow the number of segments
RenderCurve_FixedResolution(curve, color) ==
    IF curve.ok
    THEN <<[call |-> "linestrip", color |-> color, segments |-> curve.segments,
            control |-> <<>>, resolution |-> ResolutionPerSegment,
            vertices |-> ResolutionPerSegment + 1]>>
    ELSE <<>>

\* render_curve: nothing for Err, otherwise resolution + 1 positions of the curve
RenderCurve(curve, color) ==
    IF curve.ok
    THEN LET resolution == ResolutionPerSegment * Len(curve.segments)
         IN  <<[call |-> "linestrip", color |-> color, segments |-> curve.segments,
                control |-> <<>>, resolution |-> resolution, vertices |-> resolution + 1]>>
    ELSE <<>>

\* Sampling, curve.iter_positions(resolution): sample k of 0..resolution is taken at
\* t = k * segments / resolution, in segment min(floor(t), segments - 1) at the
\* local parameter t - segment.  Parameters are kept as exact fractions n / d.

RECURSIVE GCD(_, _)
GCD(a, b) == IF b = 0 THEN a ELSE GCD(b, a % b)

SampleParameter(segments, resolution, k) ==
    LET t_num == k * segments
        whole == t_num \div resolution
        index == IF whole > segments - 1 THEN segments - 1 ELSE whole
        local == t_num - index * resolution
        g == GCD(local, resolution)
    IN  [segment |-> index + 1, n |-> local \div g, d |-> resolution \div g]

\* One coordinate of a Catmull-Rom segment (cardinal spline of tension 1/2) over
\* the window <<p0, p1, p2, p3>> at n / d, times 2 * d^3:
\*   2 p(t) = 2 p1 + (p2 - p0) t + (2 p0 - 5 p1 + 4 p2 - p3) t^2
\*                 + (3 p1 - p0 - 3 p2 + p3) t^3
CatmullRomScaled(p0, p1, p2, p3, n, d) ==
    2 * p1 * d * d * d
    + (p2 - p0) * n * d * d
    + (2 * p0 - 5 * p1 + 4 * p2 - p3) * n * n * d
    + (3 * p1 - p0 - 3 * p2 + p3) * n * n * n

\* sample k of the cardinal spline drawn by `call`, as [num |-> <<x, y>>, den |-> 2 d^3]
CardinalPosition(call, k) ==
    LET at == SampleParameter(Len(call.segments), call.resolution, k)
        w == call.segments[at.segment]
    IN  [num |-> <<CatmullRomScaled(w[1][1], w[2][1], w[3][1], w[4][1], at.n, at.d),
                   CatmullRomScaled(w[1][2], w[2][2], w[3][2], w[4][2], at.n, at.d)>>,
         den |-> 2 * at.d * at.d * at.d]

\* mutant: the early return only catches the empty store
TooFewPoints_OnlyEmpty(n) == n < 1

\* plot_line: the early return
TooFewPoints(n) == n < MinLinePoints

\* mutant: the Bezier branch is taken for exactly four points only
HasBezierPoints_Exactly(n) == n = BezierPoints

\* plot_line: the guard of the Bezier branch
HasBezierPoints(n) == n >= BezierPoints

\* the draw calls of one run of plot_line
PlotLineCalls(ps) ==
    IF TooFewPoints(Len(ps)) THEN <<>>
    ELSE LET cp == Positions(ps)
         IN  <<Linestrip2d(cp, "WHITE")>>
             \o RenderCurve(BSplineToCurve(cp), "PINK")
             \o RenderCurve(CardinalToCurve(cp), "YELLOW")
             \o (IF HasBezierPoints(Len(cp))
                 THEN RenderCurve(BezierToCurve(<< <<cp[1], cp[2], cp[3], cp[4]>> >>), "GREEN")
                 ELSE <<>>)

\* gizmos.circle_2d(Isometry2d::from_xy(x, y), point.show_size, color)
Circle2d(p) ==
    [center |-> p.position, radius |-> p.show_size,
     color |-> IF p.is_selected THEN p.selected_color ELSE p.default_color]

\* the draw calls of one run of plot_point
PlotPointCalls(ps) == [i \in 1..Len(ps) |-> Circle2d(ps[i])]

----------------------------------------------------------------------------
(* The systems.  main() chains them, so each frame runs them in this order. *)

\* mutant: the plot systems are chained before add_point_with_right_mouse
Chain_DrawsBeforeAdding ==
    <<"handle_keypress", "handle_mouse_move", "move_point_with_mouse",
      "plot_point", "plot_line", "add_point_with_right_mouse">>

\* the tuple of systems given to add_systems(Update, (..).chain())
Chain ==
    <<"handle_keypress", "handle_mouse_move", "move_point_with_mouse",
      "add_point_with_right_mouse", "plot_point", "plot_line">>

\* the system that runs after `system`; after the last one the frame is over
After(system) ==
    LET i == CHOOSE k \in DOMAIN Chain : Chain[k] = system
    IN  IF i = Len(Chain) THEN "PreUpdate" ELSE Chain[i + 1]

Init ==
    /\ points = <<>>
    /\ mouse_position = None
    /\ cursor_events = <<>>
    /\ keyboard = FALSE
    /\ left_pressed = FALSE
    /\ left_just_pressed = FALSE
    /\ right_just_pressed = FALSE
    /\ camera = "ok"
    /\ circles = <<>>
    /\ lines = <<>>
    /\ pc = "PreUpdate"
    /\ frame_start_selected = 0

\* Before Update: the input plugins of DefaultPlugins publish this frame's input
\* and the gizmo buffers of the last frame are dropped.
PreUpdate ==
    /\ pc = "PreUpdate"
    /\ cursor_events' \in CursorBatches
    /\ keyboard' \in BOOLEAN
    /\ left_pressed' \in BOOLEAN
    /\ left_just_pressed' \in
           {b \in BOOLEAN : (b => left_pressed') /\ ((left_pressed' /\ ~left_pressed) => b)}
    /\ right_just_pressed' \in {b \in BOOLEAN : b => Len(points) < MaxPoints}
    /\ camera' \in CameraStates
    /\ circles' = <<>>
    /\ lines' = <<>>
    /\ frame_start_selected' =
           (IF SelectedIndices(points) = {} THEN 0 ELSE Min(SelectedIndices(points)))
    /\ pc' = Chain[1]
    /\ UNCHANGED <<points, mouse_position>>

HandleKeypress ==
    /\ pc = "handle_keypress"
    /\ points' = (IF keyboard THEN Pop(points) ELSE points)
    /\ pc' = After("handle_keypress")
    /\ UNCHANGED <<mouse_position, cursor_events, keyboard, left_pressed,
                   left_just_pressed, right_just_pressed, camera, circles, lines, frame_start_selected>>

\* mutant: the first event of the frame is kept instead of the last
HandleMouseMove_KeepsFirst ==
    /\ pc = "handle_mouse_move"
    /\ mouse_position' =
           (IF cursor_events # <<>> THEN Some(cursor_events[1]) ELSE mouse_position)
    /\ cursor_events' = <<>>
    /\ pc' = After("handle_mouse_move")
    /\ UNCHANGED <<points, keyboard, left_pressed, left_just_pressed,
                   right_just_pressed, camera, circles, lines, frame_start_selected>>

\* mutant: a frame without cursor events forgets the position
HandleMouseMove_ResetsWhenIdle ==
    /\ pc = "handle_mouse_move"
    /\ mouse_position' =
           (IF cursor_events # <<>> THEN Some(cursor_events[Len(cursor_events)]) ELSE None)
    /\ cursor_events' = <<>>
    /\ pc' = After("handle_mouse_move")
    /\ UNCHANGED <<points, keyboard, left_pressed, left_just_pressed,
                   right_just_pressed, camera, circles, lines, frame_start_selected>>

HandleMouseMove ==
    /\ pc = "handle_mouse_move"
    /\ mouse_position' =
           (IF cursor_events # <<>>
            THEN Some(cursor_events[Len(cursor_events)])
            ELSE mouse_position)
    /\ cursor_events' = <<>>
    /\ pc' = After("handle_mouse_move")
    /\ UNCHANGED <<points, keyboard, left_pressed, left_just_pressed,
                   right_just_pressed, camera,
                   circles, lines, frame_start_selected>>

\* mutant: a failed projection is treated like a released button
MovedPoints_ClearsOnError(ps, mp, left, cam) ==
    IF mp = None THEN ClearSelected(ps)
    ELSE IF ~left THEN ClearSelected(ps)
    ELSE IF ~GetSingleOk(cam) THEN ClearSelected(ps)
    ELSE IF ~ProjectionOk(cam) THEN ClearSelected(ps)
    ELSE LET mouse_point == ViewportToWorld2d(Unwrap(mp))
         IN  IF SelectedIndices(ps) # {}
             THEN DragFirstSelected(ps, mouse_point)
             ELSE SelectFirstWithin(ps, mouse_point)

\* the store after one run of move_point_with_mouse
MovedPoints(ps, mp, left, cam) ==
    IF mp = None THEN ClearSelected(ps)
    ELSE IF ~left THEN ClearSelected(ps)
    ELSE IF ~GetSingleOk(cam) THEN ps
    ELSE IF ~ProjectionOk(cam) THEN ps
    ELSE LET mouse_point == ViewportToWorld2d(Unwrap(mp))
         IN  IF SelectedIndices(ps) # {}
             THEN DragFirstSelected(ps, mouse_point)
             ELSE SelectFirstWithin(ps, mouse_point)

\* mutant: the selection search only runs in the frame of the press (just_pressed)
MovePointWithMouse_PressTriggered ==
    /\ pc = "move_point_with_mouse"
    /\ points' =
           (IF /\ mouse_position # None
               /\ left_pressed
               /\ ~left_just_pressed
               /\ SelectedIndices(points) = {}
            THEN points
            ELSE MovedPoints(points, mouse_position, left_pressed, camera))
    /\ pc' = After("move_point_with_mouse")
    /\ UNCHANGED <<mouse_position, cursor_events, keyboard, left_pressed,
                   left_just_pressed, right_just_pressed, camera, circles, lines,
                   frame_start_selected>>

MovePointWithMouse ==
    /\ pc = "move_point_with_mouse"
    /\ points' = MovedPoints(points, mouse_position, left_pressed, camera)
    /\ pc' = After("move_point_with_mouse")
    /\ UNCHANGED <<mouse_position, cursor_events, keyboard, left_pressed,
                   left_just_pressed, right_just_pressed, camera, circles, lines, frame_start_selected>>

\* the store after one run of add_point_with_right_mouse
AddedPoints(ps, mp, right, cam) ==
    IF ~right THEN ps
    ELSE IF mp = None THEN ps
    ELSE IF ~GetSingleOk(cam) THEN ps
    ELSE IF ~ProjectionOk(cam) THEN ps
    ELSE Push(ps, ViewportToWorld2d(Unwrap(mp)))

AddPointWithRightMouse ==
    /\ pc = "add_point_with_right_mouse"
    /\ points' = AddedPoints(points, mouse_position, right_just_pressed, camera)
    /\ pc' = After("add_point_with_right_mouse")
    /\ UNCHANGED <<mouse_position, cursor_events, keyboard, left_pressed,
                   left_just_pressed, right_just_pressed, camera, circles, lines, frame_start_selected>>

\* mutant: drawing the circles also resets the selection flags
PlotPoint_Deselects ==
    /\ pc = "plot_point"
    /\ circles' = circles \o PlotPointCalls(points)
    /\ points' = ClearSelected(points)
    /\ pc' = After("plot_point")
    /\ UNCHANGED <<mouse_position, cursor_events, keyboard, left_pressed,
                   left_just_pressed, right_just_pressed, camera, lines,
                   frame_start_selected>>

PlotPoint ==
    /\ pc = "plot_point"
    /\ circles' = circles \o PlotPointCalls(points)
    /\ pc' = After("plot_point")
    /\ UNCHANGED <<points, mouse_position, cursor_events, keyboard, left_pressed,
                   left_just_pressed, right_just_pressed, camera, lines, frame_start_selected>>

PlotLine ==
    /\ pc = "plot_line"
    /\ lines' = lines \o PlotLineCalls(points)
    /\ pc' = After("plot_line")
    /\ UNCHANGED <<points, mouse_position, cursor_events, keyboard, left_pressed,
                   left_just_pressed, right_just_pressed, camera, circles, frame_start_selected>>

Next ==
    \/ PreUpdate
    \/ HandleKeypress
    \/ HandleMouseMove
    \/ MovePointWithMouse
    \/ AddPointWithRightMouse
    \/ PlotPoint
    \/ PlotLine

Spec == Init /\ [][Next]_vars

----------------------------------------------------------------------------
(* Rendering alone: plot_point and plot_line run once on a store of the     *)
(* editor: any number of points up to the bound, anywhere, at most one of   *)
(* them selected (a selected point reaches the plot systems when the left   *)
(* button is held; here the projection failed, so it was not moved).        *)

RenderStores ==
    UNION {{[i \in 1..n |-> [NewPoint(f[i]) EXCEPT !.is_selected = (i = s)]] :
               f \in [1..n -> WorldPos], s \in 0..n} : n \in 0..MaxRenderPoints}

InitRender ==
    /\ points \in RenderStores
    /\ mouse_position \in {Some(p) : p \in ScreenPos}
    /\ cursor_events = <<>>
    /\ keyboard = FALSE
    /\ left_pressed = TRUE
    /\ left_just_pressed = FALSE
    /\ right_just_pressed = FALSE
    /\ camera = "unprojectable"
    /\ circles = <<>>
    /\ lines = <<>>
    /\ pc = "plot_point"
    /\ frame_start_selected =
           (IF SelectedIndices(points) = {} THEN 0 ELSE Min(SelectedIndices(points)))

NextRender ==
    \/ PlotPoint
    \/ PlotLine

SpecRender == InitRender /\ [][NextRender]_vars

----------------------------------------------------------------------------
(* Properties *)

\* the world position of the stored cursor position
MousePoint == ViewportToWorld2d(Unwrap(mouse_position))

\* the systems that run after move_point_with_mouse, and the frame's end
AfterMove == {"add_point_with_right_mouse", "plot_point", "plot_line", "PreUpdate"}

\* C1: whatever the frames did, at most one control point of the store has
\* is_selected = true.
C1_AtMostOneSelected == Cardinality(SelectedIndices(points)) <= 1

\* C1 witness: move_point_with_mouse has just selected a point in a frame that began
\* with nothing selected, and two points lay within their radius of the pointer.
C1_Witness ==
    /\ pc = "add_point_with_right_mouse"
    /\ frame_start_selected = 0
    /\ Cardinality(SelectedIndices(points)) = 1
    /\ mouse_position # None
    /\ Cardinality({i \in DOMAIN points : WithinRadius(points[i], MousePoint)}) >= 2

\* C2: in a frame where the pointer is unknown or the left button is not held,
\* move_point_with_mouse clears is_selected on every point and moves no point, so no
\* point is selected for the rest of the frame; the camera plays no part.
C2_ClearedWhenNotHeld ==
    /\ [][(pc = "move_point_with_mouse" /\ (mouse_position = None \/ ~left_pressed))
            => /\ SelectedIndices(points') = {}
               /\ Positions(points') = Positions(points)]_vars
    /\ []((pc \in AfterMove /\ (mouse_position = None \/ ~left_pressed))
            => SelectedIndices(points) = {})

\* C2 witness: a point that was selected when the frame began is still in the store
\* and is no longer selected after move_point_with_mouse ran with the button released
\* and no usable camera.
C2_Witness ==
    /\ pc = "add_point_with_right_mouse"
    /\ ~left_pressed
    /\ camera # "ok"
    /\ frame_start_selected # 0
    /\ frame_start_selected <= Len(points)
    /\ SelectedIndices(points) = {}

\* C3: with the left button held, the pointer known, the projection succeeding and a
\* point selected, move_point_with_mouse puts the selected point at the projected
\* pointer, moves no other point and leaves the set of selected points as it was.
C3_DragMovesOnlySelected ==
    [][(/\ pc = "move_point_with_mouse"
        /\ left_pressed
        /\ mouse_position # None
        /\ camera = "ok"
        /\ SelectedIndices(points) # {})
         => /\ Len(points') = Len(points)
            /\ \A i \in DOMAIN points :
                  points'[i].position =
                      (IF points[i].is_selected THEN MousePoint ELSE points[i].position)
            /\ SelectedIndices(points') = SelectedIndices(points)]_vars

\* C3 witness: the point selected at the start of the frame has been dragged to the
\* pointer while an unselected point with a lower index lies within its radius of
\* the pointer.
C3_Witness ==
    /\ pc = "add_point_with_right_mouse"
    /\ left_pressed
    /\ mouse_position # None
    /\ camera = "ok"
    /\ frame_start_selected \in SelectedIndices(points)
    /\ points[frame_start_selected].position = MousePoint
    /\ \E k \in 1..(frame_start_selected - 1) :
          /\ ~points[k].is_selected
          /\ points[k].position # MousePoint
          /\ WithinRadius(points[k], MousePoint)

\* C4: with the left button held, the pointer known, the projection succeeding and
\* no point selected, move_point_with_mouse selects exactly the lowest-index point
\* whose distance to the projected pointer is strictly below its selected_size, and
\* no point when there is none; no point moves.
C4_SelectsFirstStrictlyWithin ==
    [][(/\ pc = "move_point_with_mouse"
        /\ left_pressed
        /\ mouse_position # None
        /\ camera = "ok"
        /\ SelectedIndices(points) = {})
         => LET near == {i \in DOMAIN points :
                            DistSq(points[i].position, MousePoint)
                                < points[i].selected_size * points[i].selected_size}
            IN  /\ Positions(points') = Positions(points)
                /\ near = {} => SelectedIndices(points') = {}
                /\ near # {} =>
                      \E i \in near : /\ \A k \in near : i <= k
                                      /\ SelectedIndices(points') = {i}]_vars

\* C4 witness: the point just selected has before it a point at distance exactly
\* selected_size from the pointer, and after it a point nearer to the pointer.
C4_Witness ==
    /\ pc = "add_point_with_right_mouse"
    /\ left_pressed
    /\ mouse_position # None
    /\ camera = "ok"
    /\ frame_start_selected = 0
    /\ \E i \in SelectedIndices(points) :
          /\ \E k \in 1..(i - 1) :
                DistSq(points[k].position, MousePoint) = selected_size * selected_size
          /\ \E k \in (i + 1)..Len(points) :
                DistSq(points[k].position, MousePoint)
                    < DistSq(points[i].position, MousePoint)

\* C5 as stated: in a frame of a hold (left button held, pointer known) that began
\* with a point selected, no other point is selected when move_point_with_mouse has
\* run, whatever else the frame did.
C5_Original ==
    (/\ pc = "add_point_with_right_mouse"
     /\ left_pressed
     /\ mouse_position # None
     /\ frame_start_selected # 0)
      => \A j \in SelectedIndices(points) : j = frame_start_selected

\* C5 amended: in a frame of a hold (left button held, pointer known) that began with
\* a point selected, and in which handle_keypress did not remove that point, no other
\* point is selected when move_point_with_mouse has run.
C5_NoStealWhileInStore ==
    (/\ pc = "add_point_with_right_mouse"
     /\ left_pressed
     /\ mouse_position # None
     /\ frame_start_selected # 0
     /\ frame_start_selected <= Len(points))
      => SelectedIndices(points) = {frame_start_selected}

\* C5 witness: the hold goes on with the same point selected although an unselected
\* point with a lower index lies within its radius of the pointer.
C5_Witness ==
    /\ pc = "add_point_with_right_mouse"
    /\ left_pressed
    /\ mouse_position # None
    /\ keyboard
    /\ camera = "ok"
    /\ frame_start_selected # 0
    /\ SelectedIndices(points) = {frame_start_selected}
    /\ \E k \in 1..(frame_start_selected - 1) : WithinRadius(points[k], MousePoint)

\* the Bezier calls among the line strips: render_curve draws them in GREEN
BezierCalls == {i \in DOMAIN lines : lines[i].color = "GREEN"}

\* the line strip render_curve emits for the Bezier segment over the first four points
FirstFourBezier ==
    [call |-> "linestrip", color |-> "GREEN",
     segments |-> << <<points[1].position, points[2].position,
                       points[3].position, points[4].position>> >>,
     control |-> <<>>, resolution |-> 100, vertices |-> 101]

C7_AppendOnRightPress ==
    /\ [][(/\ pc = "add_point_with_right_mouse"
           /\ right_just_pressed
           /\ mouse_position # None
           /\ camera = "ok")
            => points' = points \o
                   <<[position |-> MousePoint, show_size |-> 5, selected_size |-> 10,
                      default_color |-> "GREEN", selected_color |-> "RED",
                      is_selected |-> FALSE]>>]_vars
    /\ [][Len(points') > Len(points)
            => pc = "add_point_with_right_mouse" /\ right_just_pressed]_vars

\* C7 witness: a point has been appended at the pointer, behind at least one other
\* point, in a frame in which the left button is held and a point is selected.
C7_Witness ==
    /\ pc = "plot_point"
    /\ right_just_pressed
    /\ left_pressed
    /\ mouse_position # None
    /\ camera = "ok"
    /\ Len(points) >= 2
    /\ points[Len(points)].position = MousePoint
    /\ ~points[Len(points)].is_selected
    /\ \E i \in 1..(Len(points) - 1) : points[i].is_selected

\* C8: handle_keypress, run with the remove key just pressed, removes exactly the
\* last point and leaves the others as they were, and leaves an empty store empty;
\* pointer, left button and camera play no part.
C8_RemoveLastOnKey ==
    [][(pc = "handle_keypress" /\ keyboard)
         => /\ points = <<>> => points' = <<>>
            /\ points # <<>> =>
                  /\ Len(points') = Len(points) - 1
                  /\ \A i \in 1..Len(points') : points'[i] = points[i]]_vars

\* C8 witness: the key has removed the last point, which was the selected one, from
\* a store of at least two points, with the left button up and no camera.
C8_Witness ==
    /\ pc = "handle_mouse_move"
    /\ keyboard
    /\ ~left_pressed
    /\ camera = "absent"
    /\ Len(points) >= 1
    /\ frame_start_selected = Len(points) + 1
    /\ points[1].position # <<0, 0>>

C10_NoCurvesBelowTwoPoints ==
    (pc = "PreUpdate" /\ Len(points) < 2) =>
        /\ lines = <<>>
        /\ Len(circles) = Len(points)

\* C10 witness: a frame has drawn a store of one point.
C10_Witness ==
    /\ pc = "PreUpdate"
    /\ Len(points) = 1
    /\ Len(circles) = 1

\* the circles and the raw line strip drawn in this frame show the store as it is now:
\* count, order, positions and selection flags
DrawnFromStore ==
    /\ Len(circles) = Len(points)
    /\ \A i \in DOMAIN points :
          /\ circles[i].center = points[i].position
          /\ circles[i].color = (IF points[i].is_selected THEN "RED" ELSE "GREEN")
    /\ Len(points) < 2 => lines = <<>>
    /\ Len(points) >= 2 =>
          /\ lines # <<>>
          /\ lines[1].call = "linestrip_2d"
          /\ Len(lines[1].control) = Len(points)
          /\ \A i \in DOMAIN points : lines[1].control[i] = points[i].position

C12_FourOutputsScaledResolution ==
    pc = "PreUpdate" =>
        /\ Len(points) = 4 =>
              /\ Len(lines) = 4
              /\ [i \in 1..4 |-> lines[i].color] = <<"WHITE", "PINK", "YELLOW", "GREEN">>
              /\ lines[4].resolution = 100
              /\ lines[4].vertices = 101
        /\ \A i \in DOMAIN lines :
              lines[i].call = "linestrip" =>
                  /\ lines[i].resolution = 100 * Len(lines[i].segments)
                  /\ lines[i].vertices = lines[i].resolution + 1

\* C12 witness: a frame has drawn a store of 4 points; its cardinal spline has three
\* segments and resolution 300, its Bezier curve one segment and resolution 100.
C12_Witness ==
    /\ pc = "PreUpdate"
    /\ Len(points) = 4
    /\ Len(lines) = 4
    /\ lines[3].resolution = 300
    /\ lines[4].resolution = 100

\* the cardinal spline among the line strips: render_curve draws it in YELLOW
CardinalCalls == {i \in DOMAIN lines : lines[i].color = "YELLOW"}

\* sample k of the cardinal spline lines[c] lies exactly on the position p
SampleIsAt(c, k, p) ==
    LET q == CardinalPosition(lines[c], k)
    IN  q.num = <<p[1] * q.den, p[2] * q.den>>

\* C13: when a frame ends with at least 2 points in the store, it has emitted one
\* cardinal spline, and every control point is the position of one of its samples
\* (exactly, in the arithmetic of the model).
C13_CardinalInterpolates ==
    (pc = "PreUpdate" /\ Len(points) >= 2) =>
        /\ Cardinality(CardinalCalls) = 1
        /\ \A c \in CardinalCalls : \A i \in DOMAIN points :
              \E k \in 0..lines[c].resolution : SampleIsAt(c, k, points[i].position)

\* C13 witness: a frame has drawn the cardinal spline of five points that do not lie on
\* one line; the sample at the start of its third segment is the third control point,
\* the sample in the middle of that segment is not a control point.
C13_Witness ==
    /\ pc = "PreUpdate"
    /\ Len(points) = 5
    /\ Cardinality({points[i].position : i \in DOMAIN points}) = 3
    /\ \E c \in CardinalCalls :
          /\ lines[c].resolution = 400
          /\ SampleIsAt(c, 200, points[3].position)
          /\ \A i \in DOMAIN points : ~SampleIsAt(c, 250, points[i].position)

\* C14 as stated: a frame emits one circle per control point, centred at the point,
\* with the selected size and the selected color for a selected point and the display
\* size and the default color for any other.
C14_Original ==
    pc = "PreUpdate" =>
        /\ Len(circles) = Len(points)
        /\ \A i \in DOMAIN points :
              /\ circles[i].center = points[i].position
              /\ circles[i].radius = (IF points[i].is_selected THEN 10 ELSE 5)
              /\ circles[i].color = (IF points[i].is_selected THEN "RED" ELSE "GREEN")

\* C15: handle_mouse_move stores the position of the last cursor event of the frame,
\* and leaves the stored position as it was when the frame has no cursor event.
C15_KeepsLastCursorEvent ==
    [][pc = "handle_mouse_move" =>
          /\ cursor_events # <<>> =>
                mouse_position' = <<cursor_events[Len(cursor_events)]>>
          /\ cursor_events = <<>> => mouse_position' = mouse_position]_vars

\* C15 witness: handle_mouse_move is about to read two cursor events at different
\* positions, neither of them the stored position.
C15_Witness ==
    /\ pc = "handle_mouse_move"
    /\ Len(cursor_events) = 2
    /\ cursor_events[1] # cursor_events[2]
    /\ mouse_position # None
    /\ mouse_position # <<cursor_events[1]>>
    /\ mouse_position # <<cursor_events[2]>>

\* C16: plot_point and plot_line leave the store as it is, and at the end of a frame
\* one more evaluation of both on the store yields exactly what the frame emitted.
C16_DrawingReadsOnly ==
    /\ [][(pc \in {"plot_point", "plot_line"}) => points' = points]_vars
    /\ [](pc = "PreUpdate" =>
            /\ circles = PlotPointCalls(points)
            /\ lines = PlotLineCalls(points))

\* C16 witness: a frame has drawn circles and curves of a store with a selected point.
C16_Witness ==
    /\ pc = "PreUpdate"
    /\ Len(points) >= 2
    /\ SelectedIndices(points) # {}
    /\ circles # <<>>
    /\ Len(lines) >= 2

\* C17: a point keeps its position in every step except the step of
\* move_point_with_mouse taken while it is selected; a point that this step selects
\* stays where it is.
C17_OnlySelectedMoves ==
    [][\A i \in DOMAIN points \cap DOMAIN points' :
          (points'[i].position # points[i].position) =>
              (pc = "move_point_with_mouse" /\ points[i].is_selected)]_vars

\* C17 witness: move_point_with_mouse has selected a point that is not at the pointer.
C17_Witness ==
    /\ pc = "add_point_with_right_mouse"
    /\ left_pressed
    /\ camera = "ok"
    /\ mouse_position # None
    /\ frame_start_selected = 0
    /\ \E i \in SelectedIndices(points) : points[i].position # MousePoint

\* C18: a point that was selected when the frame began and was not removed by
\* handle_keypress is still selected after move_point_with_mouse when the left button
\* is held and the pointer is known, also without a usable camera; and the systems
\* after it change no selection flag.
C18_SelectionKeptWhileHeld ==
    /\ []((/\ pc = "add_point_with_right_mouse"
           /\ left_pressed
           /\ mouse_position # None
           /\ frame_start_selected # 0
           /\ frame_start_selected <= Len(points))
            => points[frame_start_selected].is_selected)
    /\ [][(pc \in {"add_point_with_right_mouse", "plot_point", "plot_line"}) =>
            \A i \in DOMAIN points :
                (i \in DOMAIN points' /\ points'[i].is_selected = points[i].is_selected)]_vars

\* C18 witness: the frame removed another point and had no usable projection, and
\* the point selected at its start is still selected.
C18_Witness ==
    /\ pc = "plot_point"
    /\ left_pressed
    /\ keyboard
    /\ camera = "unprojectable"
    /\ mouse_position # None
    /\ frame_start_selected # 0
    /\ frame_start_selected <= Len(points)
    /\ points[frame_start_selected].is_selected

\* C19: a stored pointer position never becomes unknown again.
C19_PointerStaysKnown ==
    [][mouse_position # None => mouse_position' # None]_vars

\* C19 witness: handle_mouse_move is about to run in a frame without cursor events
\* while a position is stored and the store holds a point.
C19_Witness ==
    /\ pc = "handle_mouse_move"
    /\ cursor_events = <<>>
    /\ mouse_position # None
    /\ points # <<>>

\* C20: in a frame in which the left button is held but was not just pressed, with
\* nothing selected, the projection succeeding and the pointer strictly within the
\* radius of some point, move_point_with_mouse selects such a point.
C20_SelectsWithoutPressEdge ==
    [][(/\ pc = "move_point_with_mouse"
        /\ left_pressed
        /\ ~left_just_pressed
        /\ mouse_position # None
        /\ camera = "ok"
        /\ SelectedIndices(points) = {}
        /\ \E i \in DOMAIN points : WithinRadius(points[i], MousePoint))
         => /\ SelectedIndices(points') # {}
            /\ \A i \in SelectedIndices(points') : WithinRadius(points[i], MousePoint)]_vars

\* C20 witness: a hold that began in an earlier frame, and had nothing selected when
\* this frame began, has selected a point in this frame.
C20_Witness ==
    /\ pc = "add_point_with_right_mouse"
    /\ left_pressed
    /\ ~left_just_pressed
    /\ ~keyboard
    /\ camera = "ok"
    /\ mouse_position # None
    /\ frame_start_selected = 0
    /\ SelectedIndices(points) # {}

====
